---- MODULE Spec2Model ----
(***************************************************************************)
(* Model of the yolo.ipynb notebook: the image section (one forward pass,  *)
(* parse_layers, label_frame) followed by the video section (capture,      *)
(* frame-count probe, frame loop, release).  Real numbers are fixed-point: *)
(* class scores and thresholds are tenths (0.7 is 7), the network's box    *)
(* coordinates are quarters of the image side (0.5 is 2).                  *)
(***************************************************************************)
EXTENDS Integers, Sequences, FiniteSets, TLC

VARIABLES pc, image, H, W, netInput, layer_outputs,
          boxes, confidences, classIDs,
          video, vs, writer, total, stdout, grabbed, frame, events

vars == <<pc, image, H, W, netInput, layer_outputs, boxes, confidences,
          classIDs, video, vs, writer, total, stdout, grabbed, frame, events>>

\* ------------------------------------------------------------ bounds
\* longest video stream, in frames
MaxFrames == 3
\* largest numerator of a network box coordinate (in units of 1/CoordDen)
MaxCoord == 4

\* ------------------------------------------------------------ constants
\* scores and thresholds are written with one decimal: unit 1/10
Tenth == 10
\* CONFIDENCE = 0.7
CONFIDENCE == 7
\* THRESHOLD = 0.3
THRESHOLD == 3
\* box coordinates of the network are fractions of the image side: unit 1/4
CoordDen == 4
\* W, H = (None, None): no image side is 0, so 0 stands for None
None == 0
\* y - 5: the label is drawn five pixels above the box
LabelOffset == 5
\* total = -1
NoTotal == -1

\* ------------------------------------------------------------ numbers
\* int(a / b) for b > 0: Python's int() and numpy's astype("int") drop the
\* fractional part, i.e. round toward zero
TruncFloor(a, b) == a \div b

Trunc(a, b) == IF a >= 0 THEN a \div b ELSE -((-a) \div b)

Max(a, b) == IF a >= b THEN a ELSE b

Min(a, b) == IF a <= b THEN a ELSE b

\* ------------------------------------------------------------ parse_layers
\* np.argmax(scores): the first position (0-based) of the largest score
Argmax(scores) ==
    (CHOOSE i \in 1..Len(scores) :
        /\ \A j \in 1..Len(scores) : scores[j] <= scores[i]
        /\ \A j \in 1..(i - 1) : scores[j] < scores[i]) - 1

\* box = detection[0:4] * [W, H, W, H]; box.astype("int");
\* x = int(centerX - width / 2); y = int(centerY - height / 2)
BoxOfFloorXY(detection, h, w) ==
    LET centerX == Trunc(detection[1] * w, CoordDen)
        centerY == Trunc(detection[2] * h, CoordDen)
        width   == Trunc(detection[3] * w, CoordDen)
        height  == Trunc(detection[4] * h, CoordDen)
    IN  <<TruncFloor(2 * centerX - width, 2),
          TruncFloor(2 * centerY - height, 2), width, height>>

BoxOf(detection, h, w) ==
    LET centerX == Trunc(detection[1] * w, CoordDen)
        centerY == Trunc(detection[2] * h, CoordDen)
        width   == Trunc(detection[3] * w, CoordDen)
        height  == Trunc(detection[4] * h, CoordDen)
        x       == Trunc(2 * centerX - width, 2)
        y       == Trunc(2 * centerY - height, 2)
    IN  <<x, y, width, height>>

\* the body of the inner loop, for one detection; lists is the three lists
ParseDetectionGeq(detection, h, w, lists) ==
    LET scores     == SubSeq(detection, 6, Len(detection))
        classID    == Argmax(scores)
        confidence == scores[classID + 1]
    IN  IF confidence >= CONFIDENCE
        THEN [boxes       |-> Append(lists.boxes, BoxOf(detection, h, w)),
              confidences |-> Append(lists.confidences, confidence),
              classIDs    |-> Append(lists.classIDs, classID)]
        ELSE lists

\* classIDs.append(classID) placed after the if, so run for every detection
ParseDetectionIdsAlways(detection, h, w, lists) ==
    LET scores     == SubSeq(detection, 6, Len(detection))
        classID    == Argmax(scores)
        confidence == scores[classID + 1]
    IN  IF confidence > CONFIDENCE
        THEN [boxes       |-> Append(lists.boxes, BoxOf(detection, h, w)),
              confidences |-> Append(lists.confidences, confidence),
              classIDs    |-> Append(lists.classIDs, classID)]
        ELSE [lists EXCEPT !.classIDs = Append(@, classID)]

ParseDetection(detection, h, w, lists) ==
    LET scores     == SubSeq(detection, 6, Len(detection))
        classID    == Argmax(scores)
        confidence == scores[classID + 1]
    IN  IF confidence > CONFIDENCE
        THEN [boxes       |-> Append(lists.boxes, BoxOf(detection, h, w)),
              confidences |-> Append(lists.confidences, confidence),
              classIDs    |-> Append(lists.classIDs, classID)]
        ELSE lists

\* for detection in output
RECURSIVE ParseOutput(_, _, _, _)
ParseOutput(output, h, w, lists) ==
    IF output = <<>> THEN lists
    ELSE ParseOutput(Tail(output), h, w,
                     ParseDetection(Head(output), h, w, lists))

\* for output in layer_outputs; returns the very lists it was given, grown
RECURSIVE ParseLayers(_, _, _, _)
ParseLayers(outputs, h, w, lists) ==
    IF outputs = <<>> THEN lists
    ELSE ParseLayers(Tail(outputs), h, w,
                     ParseOutput(Head(outputs), h, w, lists))

\* ------------------------------------------------------------ label_frame
Area(r) == r[3] * r[4]

\* area of the intersection of two rectangles <<x, y, width, height>>
InterArea(a, b) ==
    LET x1 == Max(a[1], b[1])
        y1 == Max(a[2], b[2])
        iw == Min(a[1] + a[3], b[1] + b[3]) - x1
        ih == Min(a[2] + a[4], b[2] + b[4]) - y1
    IN  IF iw <= 0 \/ ih <= 0 THEN 0 ELSE iw * ih

\* intersection over union of a and b exceeds thr/Tenth; two empty
\* rectangles count as fully overlapping
Overlaps(a, b, thr) ==
    IF Area(a) + Area(b) = 0 THEN Tenth > thr
    ELSE InterArea(a, b) * Tenth > thr * (Area(a) + Area(b) - InterArea(a, b))

\* the candidate of S that comes first by descending score (stable)
Best(S, scores) ==
    CHOOSE i \in S : \A j \in S :
        scores[i] > scores[j] \/ (scores[i] = scores[j] /\ i <= j)

\* one round of suppression: the best remaining candidate is kept unless it
\* overlaps a box kept before it; <<candidates left, kept>>
GreedyStep(S, kept, bxs, scores, thr) ==
    LET i == Best(S, scores)
    IN  <<S \ {i},
          IF \A k \in 1..Len(kept) : ~Overlaps(bxs[i], bxs[kept[k]], thr)
          THEN Append(kept, i) ELSE kept>>

RECURSIVE Greedy(_, _, _, _, _)
Greedy(S, kept, bxs, scores, thr) ==
    IF S = {} THEN kept
    ELSE CHOOSE r \in {Greedy(n[1], n[2], bxs, scores, thr) :
                          n \in {GreedyStep(S, kept, bxs, scores, thr)}} : TRUE

\* cv2.dnn.NMSBoxes(boxes, confidences, CONFIDENCE, THRESHOLD): the kept
\* indices (1-based here), best score first
NMSBoxes(bxs, scores, score_threshold, nms_threshold) ==
    Greedy({i \in 1..Len(bxs) : scores[i] > score_threshold}, <<>>,
           bxs, scores, nms_threshold)

\* cv2.rectangle and cv2.putText for box i
Draw(bxs, confs, ids, i) ==
    LET x == bxs[i][1]
        y == bxs[i][2]
        w == bxs[i][3]
        h == bxs[i][4]
    IN  <<[op |-> "rectangle", pt1 |-> <<x, y>>, pt2 |-> <<x + w, y + h>>,
           color |-> ids[i]],
          [op |-> "putText", text |-> <<ids[i], confs[i]>>,
           org |-> <<x, y - LabelOffset>>, color |-> ids[i]]>>

RECURSIVE DrawAll(_, _, _, _, _)
DrawAll(drawn, idxs, bxs, confs, ids) ==
    IF idxs = <<>> THEN drawn
    ELSE DrawAll(drawn \o Draw(bxs, confs, ids, Head(idxs)), Tail(idxs),
                 bxs, confs, ids)

\* label_frame draws on the image it is given, in place
LabelFrameNoNMS(img, bxs, confs, ids) ==
    [img EXCEPT !.drawn =
        DrawAll(@, [i \in 1..Len(bxs) |-> i], bxs, confs, ids)]

LabelFrame(img, bxs, confs, ids) ==
    LET idxs == NMSBoxes(bxs, confs, CONFIDENCE, THRESHOLD)
    IN  IF Len(idxs) > 0
        THEN [img EXCEPT !.drawn = DrawAll(@, idxs, bxs, confs, ids)]
        ELSE img

\* ------------------------------------------------------------ inputs
\* a detection is <<cx, cy, w, h, objectness, score of class 0, of class 1>>
DetA == <<2, 2, 2, 2, 9, 9, 1>>
DetB == <<2, 2, 3, 2, 8, 1, 8>>
DetC == <<1, 1, 4, 3, 7, 7, 0>>
DetD == <<0, 3, 2, 1, 10, 0, 10>>

\* what the network returns for the pictures the model distinguishes: a list
\* of output layers, each a list of detections
Scenes == << << <<DetA, DetB>>, <<DetC>> >>,
             << <<DetD>>, <<>> >>,
             << <<DetC>> >> >>

\* image.shape[:2] and frame.shape[:2], as <<rows, columns>>
Shapes == {<<5, 6>>, <<6, 4>>}

ImageShape == <<5, 6>>

RECURSIVE SeqsUpTo(_, _)
SeqsUpTo(S, n) ==
    IF n = 0 THEN {<<>>}
    ELSE LET shorter == SeqsUpTo(S, n - 1)
         IN  shorter \cup {Append(q, x) : q \in shorter, x \in S}

\* the video files the model runs on, empty one included
Videos == [frames : SeqsUpTo(1..Len(Scenes), MaxFrames), shape : Shapes]

\* every detection with one class score pair, for checks of parse_layers alone
ScorePairs == {<<6, 7>>, <<7, 6>>, <<7, 7>>, <<8, 8>>, <<0, 10>>, <<0, 0>>}

AllDetections ==
    {<<cx, cy, w, h, 10>> \o sc :
        cx \in 0..MaxCoord, cy \in {1, 3}, w \in 0..MaxCoord, h \in {2, 3},
        sc \in ScorePairs}

\* net.forward(ln) on the blob last given to net.setInput
Forward(blob) == Scenes[blob]

NoWriter == [created |-> FALSE, size |-> <<None, None>>, frames |-> <<>>,
             released |-> 0]

NoFrame == [id |-> 0, scene |-> 0, drawn |-> <<>>]

Lists == [boxes |-> boxes, confidences |-> confidences, classIDs |-> classIDs]

Log(op) == events' = Append(events, <<op, frame.id>>)

\* how many times op was logged
Count(op) == Cardinality({k \in DOMAIN events : events[k][1] = op})

\* ------------------------------------------------------------ initial state
\* after image = cv2.imread(img); H, W = image.shape[:2], with parse_layers
\* defined: boxes, confidences and classIDs are the three list objects made
\* once, when the def statement ran, as the defaults of its last parameters.
\* Every call in the notebook omits them, so they are the lists each call
\* appends to and returns, and the globals of the same names are bound to them.
Start(p, scene, los) ==
    /\ pc = p
    /\ image = [id |-> 0, scene |-> scene, drawn |-> <<>>]
    /\ H = ImageShape[1]
    /\ W = ImageShape[2]
    /\ netInput = 0
    /\ layer_outputs = los
    /\ boxes = <<>>
    /\ confidences = <<>>
    /\ classIDs = <<>>
    /\ vs = [opened |-> 0, pos |-> 0, released |-> 0]
    /\ writer = NoWriter
    /\ total = 0
    /\ stdout = <<>>
    /\ grabbed = FALSE
    /\ frame = NoFrame
    /\ events = <<>>

Init ==
    /\ video \in Videos
    /\ \E scene \in 1..Len(Scenes) : Start("img_infer", scene, <<>>)

\* ------------------------------------------------------------ image section
\* blob = cv2.dnn.blobFromImage(image, ...); net.setInput(blob);
\* layer_outputs = net.forward(ln)
ImgInfer ==
    /\ pc = "img_infer"
    /\ netInput' = image.scene
    /\ layer_outputs' = Forward(image.scene)
    /\ pc' = "img_parse"
    /\ UNCHANGED <<image, H, W, boxes, confidences, classIDs, video, vs,
                   writer, total, stdout, grabbed, frame, events>>

\* boxes, confidences, classIDs = parse_layers(layer_outputs, H, W)
ImgParse ==
    /\ pc = "img_parse"
    /\ LET r == ParseLayers(layer_outputs, H, W, Lists)
       IN  /\ boxes' = r.boxes
           /\ confidences' = r.confidences
           /\ classIDs' = r.classIDs
    /\ pc' = "img_label"
    /\ UNCHANGED <<image, H, W, netInput, layer_outputs, video, vs, writer,
                   total, stdout, grabbed, frame, events>>

\* label_frame(image, boxes, confidences, classIDs); show_image(image)
ImgLabel ==
    /\ pc = "img_label"
    /\ image' = LabelFrame(image, boxes, confidences, classIDs)
    /\ pc' = "vs_open"
    /\ UNCHANGED <<H, W, netInput, layer_outputs, boxes, confidences,
                   classIDs, video, vs, writer, total, stdout, grabbed,
                   frame, events>>

\* ------------------------------------------------------------ video section
\* vs = cv2.VideoCapture(video); writer = None; W, H = (None, None)
VsOpen ==
    /\ pc = "vs_open"
    /\ vs' = [opened |-> vs.opened + 1, pos |-> 0, released |-> 0]
    /\ writer' = NoWriter
    /\ W' = None
    /\ H' = None
    /\ events' = Append(events, <<"VideoCapture", 0>>)
    /\ pc' = "frame_count"
    /\ UNCHANGED <<image, netInput, layer_outputs, boxes, confidences,
                   classIDs, video, total, stdout, grabbed, frame>>

\* try: total = int(vs.get(prop)); print(...)  except: print(...); total = -1
FrameCount ==
    /\ pc = "frame_count"
    /\ \E ok \in BOOLEAN :
        IF ok
        THEN /\ total' = Len(video.frames)
             /\ stdout' = Append(stdout, [text |-> "total frames in video",
                                          arg |-> Len(video.frames)])
        ELSE /\ total' = NoTotal
             /\ stdout' = stdout \o
                  <<[text |-> "Error: could not determine # of frames in video",
                     arg |-> 0],
                    [text |-> "Error: no approx. completion time can be provided",
                     arg |-> 0]>>
    /\ pc' = "read"
    /\ UNCHANGED <<image, H, W, netInput, layer_outputs, boxes, confidences,
                   classIDs, video, vs, writer, grabbed, frame, events>>

\* Read with the loop also bounded by the frame count: "or count >= total"
ReadUntilTotal ==
    /\ pc = "read"
    /\ IF vs.pos < Len(video.frames) /\ vs.pos < total
       THEN /\ grabbed' = TRUE
            /\ frame' = [id |-> vs.pos + 1, scene |-> video.frames[vs.pos + 1],
                         drawn |-> <<>>]
            /\ vs' = [vs EXCEPT !.pos = @ + 1]
            /\ IF W = None \/ H = None
               THEN H' = video.shape[1] /\ W' = video.shape[2]
               ELSE UNCHANGED <<H, W>>
            /\ events' = Append(events, <<"read", vs.pos + 1>>)
            /\ pc' = "set_input"
       ELSE /\ grabbed' = FALSE
            /\ frame' = NoFrame
            /\ pc' = "writer_release"
            /\ UNCHANGED <<vs, H, W, events>>
    /\ UNCHANGED <<image, netInput, layer_outputs, boxes, confidences,
                   classIDs, video, writer, total, stdout>>

\* Read with "continue" where the code has "break"
ReadNoBreak ==
    /\ pc = "read"
    /\ IF vs.pos < Len(video.frames)
       THEN /\ grabbed' = TRUE
            /\ frame' = [id |-> vs.pos + 1, scene |-> video.frames[vs.pos + 1],
                         drawn |-> <<>>]
            /\ vs' = [vs EXCEPT !.pos = @ + 1]
            /\ IF W = None \/ H = None
               THEN H' = video.shape[1] /\ W' = video.shape[2]
               ELSE UNCHANGED <<H, W>>
            /\ events' = Append(events, <<"read", vs.pos + 1>>)
            /\ pc' = "set_input"
       ELSE /\ grabbed' = FALSE
            /\ frame' = NoFrame
            /\ pc' = "read"
            /\ UNCHANGED <<vs, H, W, events>>
    /\ UNCHANGED <<image, netInput, layer_outputs, boxes, confidences,
                   classIDs, video, writer, total, stdout>>

\* grabbed, frame = vs.read(); if not grabbed: break;
\* if W is None or H is None: (H, W) = frame.shape[:2]
Read ==
    /\ pc = "read"
    /\ IF vs.pos < Len(video.frames)
       THEN /\ grabbed' = TRUE
            /\ frame' = [id |-> vs.pos + 1, scene |-> video.frames[vs.pos + 1],
                         drawn |-> <<>>]
            /\ vs' = [vs EXCEPT !.pos = @ + 1]
            /\ IF W = None \/ H = None
               THEN H' = video.shape[1] /\ W' = video.shape[2]
               ELSE UNCHANGED <<H, W>>
            /\ events' = Append(events, <<"read", vs.pos + 1>>)
            /\ pc' = "set_input"
       ELSE /\ grabbed' = FALSE
            /\ frame' = NoFrame
            /\ pc' = "writer_release"
            /\ UNCHANGED <<vs, H, W, events>>
    /\ UNCHANGED <<image, netInput, layer_outputs, boxes, confidences,
                   classIDs, video, writer, total, stdout>>

\* blob = cv2.dnn.blobFromImage(frame, ...); net.setInput(blob)
SetInput ==
    /\ pc = "set_input"
    /\ netInput' = frame.scene
    /\ Log("setInput")
    /\ pc' = "forward"
    /\ UNCHANGED <<image, H, W, layer_outputs, boxes, confidences, classIDs,
                   video, vs, writer, total, stdout, grabbed, frame>>

\* the forward pass run a second time on the first frame, as a warm-up
ForwardPassTwice ==
    /\ pc = "forward"
    /\ layer_outputs' = Forward(netInput)
    /\ Log("forward")
    /\ pc' = IF frame.id = 1 /\ Count("forward") = 0 THEN "forward" ELSE "parse"
    /\ UNCHANGED <<image, H, W, netInput, boxes, confidences, classIDs,
                   video, vs, writer, total, stdout, grabbed, frame>>

\* layer_outputs = net.forward(ln)
ForwardPass ==
    /\ pc = "forward"
    /\ layer_outputs' = Forward(netInput)
    /\ Log("forward")
    /\ pc' = "parse"
    /\ UNCHANGED <<image, H, W, netInput, boxes, confidences, classIDs,
                   video, vs, writer, total, stdout, grabbed, frame>>

\* boxes, confidences, classIDs = parse_layers(layer_outputs, H, W)
Parse ==
    /\ pc = "parse"
    /\ LET r == ParseLayers(layer_outputs, H, W, Lists)
       IN  /\ boxes' = r.boxes
           /\ confidences' = r.confidences
           /\ classIDs' = r.classIDs
    /\ Log("parse_layers")
    /\ pc' = "label"
    /\ UNCHANGED <<image, H, W, netInput, layer_outputs, video, vs, writer,
                   total, stdout, grabbed, frame>>

\* label_frame(frame, boxes, confidences, classIDs)
Label ==
    /\ pc = "label"
    /\ frame' = LabelFrame(frame, boxes, confidences, classIDs)
    /\ Log("label_frame")
    /\ pc' = "ensure_writer"
    /\ UNCHANGED <<image, H, W, netInput, layer_outputs, boxes, confidences,
                   classIDs, video, vs, writer, total, stdout, grabbed>>

\* the writer made anew for every frame, without the "if writer is None"
EnsureWriterAlways ==
    /\ pc = "ensure_writer"
    /\ writer' = [created |-> TRUE,
                  size |-> <<video.shape[1], video.shape[2]>>,
                  frames |-> writer.frames, released |-> 0]
    /\ Log("VideoWriter")
    /\ pc' = "write"
    /\ UNCHANGED <<image, H, W, netInput, layer_outputs, boxes, confidences,
                   classIDs, video, vs, total, stdout, grabbed, frame>>

\* if writer is None: writer = cv2.VideoWriter(outpath, fourcc, 30,
\*                                 (frame_height, frame_width), True)
EnsureWriter ==
    /\ pc = "ensure_writer"
    /\ IF ~writer.created
       THEN /\ writer' = [created |-> TRUE,
                          size |-> <<video.shape[1], video.shape[2]>>,
                          frames |-> <<>>, released |-> 0]
            /\ Log("VideoWriter")
       ELSE UNCHANGED <<writer, events>>
    /\ pc' = "write"
    /\ UNCHANGED <<image, H, W, netInput, layer_outputs, boxes, confidences,
                   classIDs, video, vs, total, stdout, grabbed, frame>>

\* the write placed inside the "if writer is None" block: first frame only
WriteFirstOnly ==
    /\ pc = "write"
    /\ writer' = [writer EXCEPT !.frames =
                     IF Len(@) = 0 THEN Append(@, frame) ELSE @]
    /\ Log("write")
    /\ pc' = "read"
    /\ UNCHANGED <<image, H, W, netInput, layer_outputs, boxes, confidences,
                   classIDs, video, vs, total, stdout, grabbed, frame>>

\* writer.write(frame)
Write ==
    /\ pc = "write"
    /\ writer' = [writer EXCEPT !.frames = Append(@, frame)]
    /\ Log("write")
    /\ pc' = "read"
    /\ UNCHANGED <<image, H, W, netInput, layer_outputs, boxes, confidences,
                   classIDs, video, vs, total, stdout, grabbed, frame>>

\* the release guarded by "if writer is not None"
WriterReleaseIfAny ==
    /\ pc = "writer_release"
    /\ IF writer.created
       THEN /\ writer' = [writer EXCEPT !.released = @ + 1]
            /\ events' = Append(events, <<"writer.release", 0>>)
       ELSE UNCHANGED <<writer, events>>
    /\ pc' = "vs_release"
    /\ UNCHANGED <<image, H, W, netInput, layer_outputs, boxes, confidences,
                   classIDs, video, vs, total, stdout, grabbed, frame>>

\* writer.release(): an AttributeError when writer is still None
WriterRelease ==
    /\ pc = "writer_release"
    /\ IF writer.created
       THEN /\ writer' = [writer EXCEPT !.released = @ + 1]
            /\ events' = Append(events, <<"writer.release", 0>>)
            /\ pc' = "vs_release"
       ELSE /\ pc' = "failed"
            /\ UNCHANGED <<writer, events>>
    /\ UNCHANGED <<image, H, W, netInput, layer_outputs, boxes, confidences,
                   classIDs, video, vs, total, stdout, grabbed, frame>>

\* vs.release()
VsRelease ==
    /\ pc = "vs_release"
    /\ vs' = [vs EXCEPT !.released = @ + 1]
    /\ events' = Append(events, <<"vs.release", 0>>)
    /\ pc' = "all_done"
    /\ UNCHANGED <<image, H, W, netInput, layer_outputs, boxes, confidences,
                   classIDs, video, writer, total, stdout, grabbed, frame>>

\* print("All done!")
AllDone ==
    /\ pc = "all_done"
    /\ stdout' = Append(stdout, [text |-> "All done!", arg |-> 0])
    /\ pc' = "done"
    /\ UNCHANGED <<image, H, W, netInput, layer_outputs, boxes, confidences,
                   classIDs, video, vs, writer, total, grabbed, frame, events>>

Next ==
    \/ ImgInfer \/ ImgParse \/ ImgLabel
    \/ VsOpen \/ FrameCount \/ Read \/ SetInput \/ ForwardPass \/ Parse
    \/ Label \/ EnsureWriter \/ Write \/ WriterRelease \/ VsRelease \/ AllDone

Spec == Init /\ [][Next]_vars

\* the script is one thread that runs each statement as soon as the one
\* before it returns: no enabled step is postponed for ever
FairSpec == Spec /\ WF_vars(Next)

\* parse_layers and label_frame alone, on every detection of AllDetections:
\* the state after the forward pass on an image whose network output is one
\* layer holding that detection, followed by a known second layer
ParseInit ==
    /\ video = [frames |-> <<>>, shape |-> ImageShape]
    /\ \E d \in AllDetections, rest \in {<<>>, <<DetA, DetC>>} :
          Start("img_parse", 1, << <<d>>, rest >>)

ParseNext == ImgParse \/ ImgLabel

ParseSpec == ParseInit /\ [][ParseNext]_vars

\* ------------------------------------------------------------ properties
EmptyLists == [boxes |-> <<>>, confidences |-> <<>>, classIDs |-> <<>>]

\* the position in the log of op on frame i (0 when absent)
At(op, i) ==
    IF \E k \in DOMAIN events : events[k] = <<op, i>>
    THEN CHOOSE k \in DOMAIN events : events[k] = <<op, i>>
    ELSE 0

Printed(text) == \E k \in DOMAIN stdout : stdout[k].text = text

LoopEnded == pc \in {"writer_release", "vs_release", "all_done", "done", "failed"}

Stopped == pc \in {"done", "failed"}

\* the detections of all layers, in the order parse_layers visits them
RECURSIVE Flatten(_)
Flatten(outputs) ==
    IF outputs = <<>> THEN <<>> ELSE Head(outputs) \o Flatten(Tail(outputs))

\* the largest of detection[5:]
TopScore(detection) ==
    CHOOSE s \in {detection[k] : k \in 6..Len(detection)} :
        \A k \in 6..Len(detection) : detection[k] <= s

AboveConfidence(detection) == TopScore(detection) > CONFIDENCE

\* C1: after every call parse_layers(layer_outputs, H, W), the returned boxes,
\* confidences and classIDs hold exactly the detections retained from that
\* call's layer_outputs, and nothing an earlier call produced.
C1_NoSharedState ==
    pc \in {"img_label", "label"} =>
        Lists = ParseLayers(layer_outputs, H, W, EmptyLists)

\* C2: a call of parse_layers appends one entry to each of boxes, confidences
\* and classIDs for every detection whose top class score exceeds CONFIDENCE,
\* in order, and nothing for any other detection.
C2_RetainedIffAboveConfidence ==
    [][(ImgParse \/ Parse) =>
        LET kept == SelectSeq(Flatten(layer_outputs), AboveConfidence)
            n    == Len(kept)
        IN  /\ Len(boxes') = Len(boxes) + n
            /\ Len(confidences') = Len(confidences) + n
            /\ Len(classIDs') = Len(classIDs) + n
            /\ \A k \in 1..n :
                  confidences'[Len(confidences) + k] = TopScore(kept[k])
            /\ \A k \in 1..Len(boxes) : boxes'[k] = boxes[k]]_vars

\* a call that kept one detection and dropped another
C2_Witness ==
    /\ pc = "img_label"
    /\ Len(boxes) >= 1
    /\ \E k \in 1..Len(Flatten(layer_outputs)) :
          TopScore(Flatten(layer_outputs)[k]) = CONFIDENCE
    /\ Len(boxes) < Len(Flatten(layer_outputs))

\* the three lists after the image call (k = 0) and the calls on frames 1..k
RECURSIVE ListsAfter(_)
ListsAfter(k) ==
    IF k = 0
    THEN ParseLayers(Forward(image.scene), ImageShape[1], ImageShape[2],
                     EmptyLists)
    ELSE ParseLayers(Forward(video.frames[k]), video.shape[1], video.shape[2],
                     ListsAfter(k - 1))

\* frame k of the video as the loop annotates it
AnnotatedFrame(k) ==
    LabelFrame([id |-> k, scene |-> video.frames[k], drawn |-> <<>>],
               ListsAfter(k).boxes, ListsAfter(k).confidences,
               ListsAfter(k).classIDs)

\* C3 as stated: in every run whose frame loop has ended, once the run has
\* stopped the capture and the writer have each been opened once and released
\* once.
C3_EveryRunOpensAndReleasesOnce ==
    Stopped =>
        /\ Count("VideoCapture") = 1 /\ vs.released = 1
        /\ Count("VideoWriter") = 1 /\ writer.released = 1

\* C3 amended: neither handle is ever opened or released twice, and in every
\* run whose loop ends after at least one frame was grabbed, the stopped run
\* has opened each handle once and released each once, the writer first, both
\* after the write of the last frame.
C3_OpenedAndReleasedOnce ==
    /\ Count("VideoCapture") <= 1 /\ Count("VideoWriter") <= 1
    /\ Count("writer.release") <= 1 /\ Count("vs.release") <= 1
    /\ writer.released = Count("writer.release")
    /\ vs.released = Count("vs.release")
    /\ (Stopped /\ vs.pos >= 1) =>
          /\ Count("VideoCapture") = 1 /\ Count("VideoWriter") = 1
          /\ Count("writer.release") = 1 /\ Count("vs.release") = 1
          /\ At("write", Len(video.frames)) > 0
          /\ At("write", Len(video.frames)) < At("writer.release", 0)
          /\ At("writer.release", 0) < At("vs.release", 0)

C3_Witness ==
    /\ pc = "done"
    /\ Len(video.frames) >= 2
    /\ Len(writer.frames) = Len(video.frames)
    /\ writer.released = 1 /\ vs.released = 1

\* C4: a failed frame-count read leaves total = -1 and prints the warning, and
\* the loop does not depend on it: whatever total is, once the loop has ended
\* every frame of the stream has been written, and the frames written so far
\* are the stream's frames in order, annotated as a function of the image and
\* the stream alone.
C4_TotalDoesNotMatter ==
    pc \notin {"img_infer", "img_parse", "img_label", "vs_open", "frame_count"} =>
        /\ total \in {NoTotal, Len(video.frames)}
        /\ (total = NoTotal) <=>
              Printed("Error: could not determine # of frames in video")
        /\ (total = NoTotal) <=>
              Printed("Error: no approx. completion time can be provided")
        /\ (total # NoTotal) <=> Printed("total frames in video")
        /\ LoopEnded => vs.pos = Len(video.frames)
        /\ LoopEnded => Len(writer.frames) = Len(video.frames)
        /\ \A k \in 1..Len(writer.frames) : writer.frames[k] = AnnotatedFrame(k)

C4_Witness ==
    /\ pc = "done"
    /\ total = NoTotal
    /\ Len(video.frames) >= 2
    /\ Len(writer.frames) = Len(video.frames)

\* C5: on an empty video the loop exits with writer still None, the release
\* of the writer fails, and neither vs.release() nor "All done!" is reached.
C5_EmptyVideoFails ==
    (LoopEnded /\ Len(video.frames) = 0) =>
        /\ ~grabbed
        /\ ~writer.created
        /\ pc \in {"writer_release", "failed"}
        /\ Count("writer.release") = 0
        /\ vs.released = 0 /\ Count("vs.release") = 0
        /\ ~Printed("All done!")

C5_Witness ==
    /\ pc = "failed"
    /\ Len(video.frames) = 0
    /\ vs.opened = 1
    /\ ~writer.created

\* C6: a stream of N >= 1 frames leads to the end of the script: the read
\* after the N-th frame grabs nothing, both handles are released, "All done!"
\* is printed, and the loop body has run exactly N times.
C6_Terminates ==
    (Len(video.frames) >= 1) ~>
        /\ pc = "done"
        /\ ~grabbed
        /\ vs.pos = Len(video.frames)
        /\ Count("setInput") = Len(video.frames)
        /\ Count("write") = Len(video.frames)
        /\ writer.released = 1 /\ vs.released = 1
        /\ Printed("All done!")

C6_Witness ==
    /\ pc = "done"
    /\ Len(video.frames) = MaxFrames
    /\ Count("setInput") = MaxFrames
    /\ Printed("All done!")

\* the steps of one pass of the loop, in the order C7 names them
Steps == <<"read", "setInput", "forward", "parse_layers", "label_frame", "write">>

IsStep(e) == \E k \in DOMAIN Steps : Steps[k] = e[1]

\* C7: the calls of the loop are, frame after frame, read, set input, forward,
\* parse_layers, label_frame, write, each once and all on one frame before the
\* next frame is read; so far there is one forward call per grabbed frame, the
\* one for the frame in hand possibly still to come.
C7_OneInferencePerFrameInOrder ==
    LET log == SelectSeq(events, IsStep)
    IN  /\ \A k \in 1..Len(log) :
              log[k] = <<Steps[((k - 1) % Len(Steps)) + 1],
                         ((k - 1) \div Len(Steps)) + 1>>
        /\ \A i \in 1..vs.pos :
              Cardinality({k \in DOMAIN events : events[k] = <<"forward", i>>})
                 = IF i < vs.pos \/ pc \in {"read"} \cup {"writer_release",
                        "vs_release", "all_done", "done", "failed", "parse",
                        "label", "ensure_writer", "write"}
                   THEN 1 ELSE 0
        /\ Count("forward") <= vs.pos

C7_Witness ==
    /\ pc = "read"
    /\ vs.pos = 2
    /\ Count("forward") = 2
    /\ At("write", 1) < At("read", 2)

\* C8: each grabbed frame is written once, after label_frame annotated it, in
\* the order read; at the end of every pass of the loop as many frames have
\* been written as have been grabbed.
C8_WrittenOncePerFrameInOrder ==
    /\ \A k \in 1..Len(writer.frames) :
          /\ writer.frames[k].id = k
          /\ writer.frames[k].scene = video.frames[k]
          /\ writer.frames[k].drawn = AnnotatedFrame(k).drawn
          /\ Cardinality({j \in DOMAIN events : events[j] = <<"write", k>>}) = 1
          /\ 0 < At("label_frame", k)
          /\ At("label_frame", k) < At("write", k)
    /\ Count("write") = Len(writer.frames)
    /\ (pc = "read" \/ LoopEnded) => Len(writer.frames) = vs.pos
    /\ pc \in {"set_input", "forward", "parse", "label", "ensure_writer", "write"}
          => Len(writer.frames) = vs.pos - 1

C8_Witness ==
    /\ pc = "read"
    /\ vs.pos = 2
    /\ Len(writer.frames) = 2
    /\ writer.frames[2].drawn # <<>>

\* the box <<x, y, width, height>> a drawn rectangle covers
RectOf(r) == <<r.pt1[1], r.pt1[2], r.pt2[1] - r.pt1[1], r.pt2[2] - r.pt1[2]>>

\* C9: a call of label_frame adds to the image one rectangle and one label for
\* each index the suppression call returns, for that very box, and nothing
\* else; no two rectangles it draws overlap by more than THRESHOLD, every box
\* it leaves out overlaps a drawn box of at least its confidence, and with no
\* index returned the image is unchanged.
C9_DrawsOnlyWhatSuppressionKeeps ==
    [][(ImgLabel \/ Label) =>
        LET before == IF pc = "img_label" THEN image ELSE frame
            after  == IF pc = "img_label" THEN image' ELSE frame'
            idxs   == NMSBoxes(boxes, confidences, CONFIDENCE, THRESHOLD)
            old    == Len(before.drawn)
        IN  /\ Len(after.drawn) = old + 2 * Len(idxs)
            /\ \A k \in 1..old : after.drawn[k] = before.drawn[k]
            /\ \A k \in 1..Len(idxs) :
                  /\ after.drawn[old + 2 * k - 1].op = "rectangle"
                  /\ RectOf(after.drawn[old + 2 * k - 1]) = boxes[idxs[k]]
                  /\ after.drawn[old + 2 * k].op = "putText"
                  /\ after.drawn[old + 2 * k].text =
                        <<classIDs[idxs[k]], confidences[idxs[k]]>>
                  /\ after.drawn[old + 2 * k].org =
                        <<boxes[idxs[k]][1], boxes[idxs[k]][2] - LabelOffset>>
            /\ \A k, l \in 1..Len(idxs) :
                  k # l => ~Overlaps(RectOf(after.drawn[old + 2 * k - 1]),
                                     RectOf(after.drawn[old + 2 * l - 1]),
                                     THRESHOLD)
            /\ \A j \in 1..Len(boxes) :
                  (\A k \in 1..Len(idxs) : idxs[k] # j) =>
                      \E k \in 1..Len(idxs) :
                          /\ confidences[idxs[k]] >= confidences[j]
                          /\ Overlaps(boxes[j], boxes[idxs[k]], THRESHOLD)
            /\ Len(idxs) = 0 => after = before
            /\ after.id = before.id /\ after.scene = before.scene]_vars

\* the image call kept two overlapping boxes and drew the better one only
C9_Witness ==
    /\ pc = "vs_open"
    /\ Len(boxes) = 2
    /\ Overlaps(boxes[1], boxes[2], THRESHOLD)
    /\ Len(image.drawn) = 2
    /\ RectOf(image.drawn[1]) = boxes[1]

\* x is v / 2 with the fraction dropped: toward zero, not toward minus infinity
IsHalfTruncated(x, v) ==
    \/ v >= 0 /\ 2 * x <= v /\ v < 2 * x + 2
    \/ v < 0 /\ 2 * x >= v /\ v > 2 * x - 2

\* c is the integer part of n * side / CoordDen, for n * side >= 0
IsScaled(c, n, side) == c * CoordDen <= n * side /\ n * side < (c + 1) * CoordDen

\* C10: the box stored for a retained detection is [x, y, width, height] with
\* centerX, centerY, width, height the integer parts of the detection's first
\* four values times (W, H, W, H), x = centerX - width/2 and
\* y = centerY - height/2 cut toward zero.
C10_CentreToTopLeft ==
    (pc = "img_label" /\ AboveConfidence(layer_outputs[1][1])) =>
        LET d == layer_outputs[1][1]
            b == boxes[1]
        IN  /\ Len(b) = 4
            /\ IsScaled(b[3], d[3], W)
            /\ IsScaled(b[4], d[4], H)
            /\ \E centerX \in 0..(MaxCoord * W) :
                  /\ IsScaled(centerX, d[1], W)
                  /\ IsHalfTruncated(b[1], 2 * centerX - b[3])
            /\ \E centerY \in 0..(MaxCoord * H) :
                  /\ IsScaled(centerY, d[2], H)
                  /\ IsHalfTruncated(b[2], 2 * centerY - b[4])

\* a retained box whose x is a negative half cut toward zero
C10_Witness ==
    /\ pc = "img_label"
    /\ AboveConfidence(layer_outputs[1][1])
    /\ \E centerX \in 0..(MaxCoord * W) :
          /\ IsScaled(centerX, layer_outputs[1][1][1], W)
          /\ 2 * centerX - boxes[1][3] < 0
          /\ 2 * boxes[1][1] = 2 * centerX - boxes[1][3] + 1

\* the detections the calls made so far retained, each with the image sides
\* of its call: the image call first, then the calls on frames 1..k
RECURSIVE RetainedOfFrames(_)
RetainedOfFrames(k) ==
    IF k = 0 THEN <<>>
    ELSE RetainedOfFrames(k - 1) \o
         [j \in 1..Len(SelectSeq(Flatten(Forward(video.frames[k])),
                                 AboveConfidence)) |->
            [det |-> SelectSeq(Flatten(Forward(video.frames[k])),
                               AboveConfidence)[j],
             h |-> video.shape[1], w |-> video.shape[2]]]

RetainedSoFar ==
    IF pc \in {"img_infer", "img_parse"} THEN <<>>
    ELSE [j \in 1..Len(SelectSeq(Flatten(Forward(image.scene)),
                                 AboveConfidence)) |->
            [det |-> SelectSeq(Flatten(Forward(image.scene)),
                               AboveConfidence)[j],
             h |-> ImageShape[1], w |-> ImageShape[2]]]
         \o RetainedOfFrames(Count("parse_layers"))

\* C11: after any sequence of parse_layers calls boxes, confidences and
\* classIDs have the same length, entry i of each comes from the same retained
\* detection (its box, its top score, the first class with that score), and
\* every index the suppression call returns is an index of classIDs.
C11_ListsStayAligned ==
    /\ Len(boxes) = Len(confidences)
    /\ Len(confidences) = Len(classIDs)
    /\ Len(boxes) = Len(RetainedSoFar)
    /\ \A i \in 1..Len(RetainedSoFar) :
          LET r == RetainedSoFar[i]
          IN  /\ i \in DOMAIN boxes /\ i \in DOMAIN confidences
              /\ i \in DOMAIN classIDs
              /\ boxes[i][3] = Trunc(r.det[3] * r.w, CoordDen)
              /\ boxes[i][4] = Trunc(r.det[4] * r.h, CoordDen)
              /\ confidences[i] = TopScore(r.det)
              /\ r.det[6 + classIDs[i]] = TopScore(r.det)
              /\ \A c \in 0..(classIDs[i] - 1) : r.det[6 + c] < TopScore(r.det)
    /\ Len(boxes) = Len(confidences) =>
          \A k \in DOMAIN NMSBoxes(boxes, confidences, CONFIDENCE, THRESHOLD) :
              NMSBoxes(boxes, confidences, CONFIDENCE, THRESHOLD)[k]
                  \in DOMAIN classIDs

\* lists grown by the image call and two frame calls, one of which dropped a
\* detection, at the moment label_frame has used them
C11_Witness ==
    /\ pc = "ensure_writer"
    /\ Count("parse_layers") = 2
    /\ Len(SelectSeq(Flatten(layer_outputs), AboveConfidence))
          < Len(Flatten(layer_outputs))
    /\ Len(classIDs) >= 3
    /\ Len(NMSBoxes(boxes, confidences, CONFIDENCE, THRESHOLD)) >= 1
    /\ frame.drawn # <<>>

====
